---------------------------- MODULE Spec2Model ----------------------------
(***************************************************************************)
(* A model of the analytics core of the sales forecasting engine:          *)
(* backend/forecasting.py, risk_analysis.py, insights_engine.py,           *)
(* consistency_validator.py, prediction.py and the /risk and /forecast     *)
(* handlers of main.py.                                                    *)
(*                                                                         *)
(* Floating point values are exact rationals extended with +inf, -inf and  *)
(* NaN (the IEEE results of x/0 and inf-inf).  The risk scorer takes a     *)
(* square root, which is computed by integer bisection on a scaled         *)
(* argument and is exact to at least three significant digits.             *)
(* Where the code averages the predictions and compares the average with   *)
(* the last actual value (insights_engine.py:34,43 and                     *)
(* consistency_validator.py:20-21) every operation is rounded to the       *)
(* nearest float of MantissaBits bits, since the sign of the difference    *)
(* depends on that rounding.                                               *)
(***************************************************************************)
EXTENDS Integers, Sequences, FiniteSets, TLC

VARIABLES
    entry,            \* the function or endpoint this request entered through
    pc,               \* position of the request inside the code
    series,           \* the pd.Series handed to the forecaster / scorer
    steps,            \* forecast horizon (steps / months)
    resid_std,        \* forecasting.py:60
    recent_pct,       \* forecasting.py:71-76
    preds,            \* raw point forecasts of the fitted model, forecasting.py:65
    adjusted,         \* forecasting.py:78
    adjusted_lower,   \* forecasting.py:79
    adjusted_upper,   \* forecasting.py:80
    forecast_res,     \* the dict returned by ets_recursive_forecast
    arg,              \* the argument of a direct call of a scalar function
    ret,              \* what a directly called function returned, or the
                      \* exception that left the request: [raised, at]
    payload,          \* the dict handed to build_insight / validate_and_adjust
    result,           \* the dict validate_and_adjust / the pipeline returned
    response,         \* the body an endpoint of main.py answered with
    df                \* the uploaded table: its columns and its rows

\* the request, the forecaster's locals, the values passed between stages
req == <<entry, series, steps, df>>
fc == <<resid_std, recent_pct, preds, adjusted, adjusted_lower, adjusted_upper>>
io == <<arg, ret, payload, result, response>>

vars == <<entry, pc, series, steps, resid_std, recent_pct, preds, adjusted,
          adjusted_lower, adjusted_upper, forecast_res, arg, ret, payload,
          result, response, df>>

-----------------------------------------------------------------------------
(* Bounds of the model.                                                    *)
MaxLen == 3
MaxSteps == 2
\* bits in the significand of a float (53 in the build; the rounding of a sum
\* and of a quotient is the same at every width)
MantissaBits == 8

-----------------------------------------------------------------------------
(* Extended rationals: [n, d] with d > 0 in lowest terms is n/d;           *)
(* [1,0] is +inf, [-1,0] is -inf and [0,0] is NaN.                         *)

AbsInt(x) == IF x < 0 THEN -x ELSE x

SignInt(x) == IF x < 0 THEN -1 ELSE IF x > 0 THEN 1 ELSE 0

RECURSIVE GCD(_, _)
GCD(a, b) == IF b = 0 THEN a ELSE GCD(b, a % b)

GCD1(a, b) == LET g == GCD(AbsInt(a), AbsInt(b)) IN IF g = 0 THEN 1 ELSE g

Norm(n, d) ==
    IF d = 0 THEN [n |-> SignInt(n), d |-> 0]
    ELSE LET g == GCD1(n, d)
             s == IF d < 0 THEN -1 ELSE 1
         IN  [n |-> s * (n \div g), d |-> s * (d \div g)]

Q(n, d) == Norm(n, d)
I(n) == [n |-> n, d |-> 1]
NaN == [n |-> 0, d |-> 0]
PosInf == [n |-> 1, d |-> 0]
NegInf == [n |-> -1, d |-> 0]

IsNaN(a) == a.d = 0 /\ a.n = 0
IsFinite(a) == a.d # 0

Neg(a) == [n |-> -a.n, d |-> a.d]

Add(a, b) ==
    IF IsNaN(a) \/ IsNaN(b) THEN NaN
    ELSE IF a.d = 0 /\ b.d = 0 THEN (IF a.n = b.n THEN a ELSE NaN)
    ELSE IF a.d = 0 THEN a
    ELSE IF b.d = 0 THEN b
    ELSE LET g == GCD1(a.d, b.d)
         IN  Norm(a.n * (b.d \div g) + b.n * (a.d \div g), (a.d \div g) * b.d)

Sub(a, b) == Add(a, Neg(b))

Mul(a, b) ==
    LET g1 == GCD1(a.n, b.d)
        g2 == GCD1(b.n, a.d)
    IN  Norm((a.n \div g1) * (b.n \div g2), (a.d \div g2) * (b.d \div g1))

\* IEEE division: x/0 is +-inf for x # 0 and NaN for x = 0
Recip(a) == IF a.n < 0 THEN Norm(-a.d, -a.n) ELSE Norm(a.d, a.n)
Div(a, b) == Mul(a, Recip(b))

\* comparisons are false as soon as one side is NaN
Lt(a, b) ==
    IF IsNaN(a) \/ IsNaN(b) THEN FALSE
    ELSE IF a.d = 0 /\ b.d = 0 THEN a.n < b.n
    ELSE IF a.d = 0 THEN a.n < 0
    ELSE IF b.d = 0 THEN b.n > 0
    ELSE LET g == GCD1(a.d, b.d)
         IN  a.n * (b.d \div g) < b.n * (a.d \div g)

Le(a, b) == ~IsNaN(a) /\ ~IsNaN(b) /\ ~Lt(b, a)

AbsQ(a) == [n |-> AbsInt(a.n), d |-> a.d]

\* Python's builtin max(a, b): b only when b > a
PyMax(a, b) == IF Lt(a, b) THEN b ELSE a
\* Python's builtin min(a, b): b only when b < a
PyMin(a, b) == IF Lt(b, a) THEN b ELSE a

-----------------------------------------------------------------------------
(* Sequence helpers (pandas / list operations).                            *)

DropNa(s) == SelectSeq(s, LAMBDA x : ~IsNaN(x))

Last(s) == s[Len(s)]

\* [x] * k giving a single element whatever k is
Repeat_once(x, k) == <<x>>

\* [x] * k
Repeat(x, k) == [j \in 1..k |-> x]

RECURSIVE SumQ(_)
SumQ(s) == IF s = <<>> THEN I(0) ELSE Add(s[1], SumQ(Tail(s)))

\* pd.Series.mean() / sum(l)/len(l) of a non-empty sequence
MeanQ(s) == Div(SumQ(s), I(Len(s)))

RECURSIVE SeqsUpTo(_, _)
SeqsUpTo(S, k) ==
    IF k = 0 THEN {<<>>}
    ELSE LET shorter == SeqsUpTo(S, k - 1)
         IN  shorter \cup {Append(s, x) : s \in {t \in shorter : Len(t) = k - 1}, x \in S}

-----------------------------------------------------------------------------
(* forecasting.py: ets_recursive_forecast                                  *)

\* inputs the model draws from
ForecastVals == {I(0), I(1), I(2), I(4), NaN}
RawForecasts == {I(-3), I(2), I(5)}
ResidStds == {I(0), I(1)}

max_growth_multiplier == 3
floor == Q(1, 100)
z == Q(196, 100)

\* forecasting.py:71-76: mean of the percent changes inside the last three points
PctChange(s) == [j \in 1..(Len(s) - 1) |-> Sub(Div(s[j + 1], s[j]), I(1))]

Recent_pct(s) ==
    IF Len(s) >= 3
    THEN LET recent == SubSeq(s, Len(s) - 2, Len(s))
             pct == DropNa(PctChange(recent))
         IN  IF pct # <<>> THEN MeanQ(pct) ELSE I(0)
    ELSE I(0)

\* forecasting.py:84
Allowed(rp) == PyMax(Mul(AbsQ(rp), I(max_growth_multiplier)), floor)
\* forecasting.py:85
Max_up(prev, rp) == Mul(prev, Add(I(1), Allowed(rp)))
\* forecasting.py:86
Min_down(prev, rp) == Mul(prev, Sub(I(1), Mul(Allowed(rp), I(max_growth_multiplier))))

\* forecasting.py:87: an upward rebound against a declining trend
Rebound(prev, rp, p) == Lt(rp, I(0)) /\ Lt(prev, p)

\* forecasting.py:87-90
P_adj(prev, rp, p) ==
    IF Rebound(prev, rp, p)
    THEN PyMin(p, Max_up(prev, rp))
    ELSE PyMax(PyMin(p, Max_up(prev, rp)), Min_down(prev, rp))

\* forecasting.py:62,66 and 63,67: the raw band, NaN replaced by the point forecast
RawLower(p, sd) == LET x == Sub(p, Mul(z, sd)) IN IF IsNaN(x) THEN p ELSE x
RawUpper(p, sd) == LET x == Add(p, Mul(z, sd)) IN IF IsNaN(x) THEN p ELSE x

\* the lower bound replaced by the down cap instead of intersected with it
Adj_lower_replaced(prev, rp, l) == Min_down(prev, rp)

\* forecasting.py:95
Adj_lower(prev, rp, l) == PyMax(Min_down(prev, rp), l)

\* forecasting.py:96
Adj_upper(prev, rp, u) == PyMin(Max_up(prev, rp), u)

\* forecasting.py:81,97: prev before step k (1-based) of the loop
PrevAt(s, adj, k) == IF k = 1 THEN Last(s) ELSE adj[k - 1]

NoForecast == [predictions |-> <<>>, lower |-> <<>>, upper |-> <<>>]

\* an empty dict / nothing returned yet
Nothing == <<>>

\* the locals of the forecaster and the values between stages, before any step
FreshForecaster ==
    /\ resid_std = I(0)
    /\ recent_pct = I(0)
    /\ preds = <<>>
    /\ adjusted = <<>>
    /\ adjusted_lower = <<>>
    /\ adjusted_upper = <<>>
    /\ forecast_res = NoForecast

FreshIo ==
    /\ arg = Nothing
    /\ ret = Nothing
    /\ payload = Nothing
    /\ result = Nothing
    /\ response = Nothing
    /\ df = Nothing

\* forecasting.py:32-33
RaiseEmpty ==
    /\ pc = "forecast"
    /\ series = <<>>
    /\ ret' = [raised |-> "ValueError", at |-> "forecasting.py:33"]
    /\ pc' = "raised"
    /\ UNCHANGED <<req, fc, forecast_res, arg, payload, result, response>>

\* the short-series path refusing the series instead of repeating its last value
Degenerate_raises ==
    /\ pc = "forecast"
    /\ series # <<>>
    /\ Len(DropNa(series)) < 3
    /\ ret' = [raised |-> "ValueError", at |-> "forecasting.py:39"]
    /\ pc' = "raised"
    /\ UNCHANGED <<req, fc, forecast_res, arg, payload, result, response>>

\* forecasting.py:39-47
Degenerate ==
    /\ pc = "forecast"
    /\ series # <<>>
    /\ Len(DropNa(series)) < 3
    /\ LET last == Last(series)
       IN  forecast_res' = [predictions |-> Repeat(last, steps),
                            lower |-> Repeat(last, steps),
                            upper |-> Repeat(last, steps)]
    /\ pc' = "forecast_done"
    /\ UNCHANGED <<req, fc, io>>

\* forecasting.py:49-81: the fit (statsmodels, outside this source) yields a residual
\* standard deviation; its raw forecasts are drawn one per step of the loop below.
\* A series with missing points is not followed into statsmodels.
Fit ==
    /\ pc = "forecast"
    /\ Len(DropNa(series)) >= 3
    /\ DropNa(series) = series
    /\ \E sd \in ResidStds : resid_std' = sd
    /\ recent_pct' = Recent_pct(series)
    /\ pc' = "adjust"
    /\ UNCHANGED <<req, preds, adjusted, adjusted_lower, adjusted_upper,
                   forecast_res, io>>

\* forecasting.py:83-97: one iteration of the loop
Step ==
    /\ pc = "adjust"
    /\ Len(adjusted) < steps
    /\ \E p \in RawForecasts :
         LET prev == PrevAt(series, adjusted, Len(adjusted) + 1)
         IN  /\ preds' = Append(preds, p)
             /\ adjusted' = Append(adjusted, P_adj(prev, recent_pct, p))
             /\ adjusted_lower' =
                  Append(adjusted_lower, Adj_lower(prev, recent_pct, RawLower(p, resid_std)))
             /\ adjusted_upper' =
                  Append(adjusted_upper, Adj_upper(prev, recent_pct, RawUpper(p, resid_std)))
    /\ UNCHANGED <<req, pc, resid_std, recent_pct, forecast_res, io>>

\* forecasting.py:99-104
Return ==
    /\ pc = "adjust"
    /\ Len(adjusted) = steps
    /\ forecast_res' = [predictions |-> adjusted, lower |-> adjusted_lower,
                        upper |-> adjusted_upper]
    /\ pc' = "forecast_done"
    /\ UNCHANGED <<req, fc, io>>

\* a direct call ets_recursive_forecast(series, steps)
InitForecast ==
    /\ entry = "ets_recursive_forecast"
    /\ pc = "forecast"
    /\ series \in SeqsUpTo(ForecastVals, MaxLen)
    /\ steps \in 1..MaxSteps
    /\ FreshForecaster
    /\ FreshIo

NextForecast == RaiseEmpty \/ Degenerate \/ Fit \/ Step \/ Return

SpecForecast == InitForecast /\ [][NextForecast]_vars

-----------------------------------------------------------------------------
(* risk_analysis.py                                                        *)

\* largest r with r*r <= x, by bisection between lo and hi
RECURSIVE ISqrtIn(_, _, _)
ISqrtIn(x, lo, hi) ==
    IF lo >= hi THEN lo
    ELSE LET mid == (lo + hi + 1) \div 2
         IN  IF mid * mid <= x THEN ISqrtIn(x, mid, hi) ELSE ISqrtIn(x, lo, mid - 1)

\* scale x by 100 (and the root by 10) while the product stays a machine integer
RECURSIVE SqrtScaled(_, _)
SqrtScaled(x, s) ==
    IF x = 0 THEN I(0)
    ELSE IF x <= 20000000 /\ s <= 10000 THEN SqrtScaled(x * 100, s * 10)
    ELSE Q(ISqrtIn(x, 0, 46340), s)

\* the square root of a rational a/b >= 0, rounded down to at least three
\* significant digits: sqrt(a/b) = sqrt(a*b)/b  (np.std takes the float root)
SqrtQ(q) == Div(SqrtScaled(q.n * q.d, 1), I(q.d))

SqDev(s, mean) == [j \in 1..Len(s) |-> Mul(Sub(s[j], mean), Sub(s[j], mean))]

\* Series.std(ddof=0)
StdQ(s) == SqrtQ(MeanQ(SqDev(s, MeanQ(s))))

\* Series.iloc[-k:]
Tail_k(s, k) == IF Len(s) <= k THEN s ELSE SubSeq(s, Len(s) - k + 1, Len(s))

RECURSIVE MaxQ(_)
MaxQ(s) == IF Len(s) = 1 THEN s[1] ELSE LET m == MaxQ(Tail(s)) IN IF Lt(s[1], m) THEN m ELSE s[1]

\* volatility_percent dividing by the window mean without looking at it
Volatility_unguarded(sr, window) ==
    LET s == DropNa(sr)
    IN  IF s = <<>> THEN I(0)
        ELSE LET recent == Tail_k(s, window)
             IN  Mul(Div(StdQ(recent), MeanQ(recent)), I(100))

\* risk_analysis.py:7-16
volatility_percent(sr, window) ==
    LET s == DropNa(sr)
    IN  IF s = <<>> THEN I(0)
        ELSE LET recent == Tail_k(s, window)
                 mean == MeanQ(recent)
             IN  IF mean = I(0) THEN PosInf
                 ELSE Mul(Div(StdQ(recent), mean), I(100))

\* peak_to_current_drawdown measuring the fall from the first value
Drawdown_from_first(sr) ==
    LET s == DropNa(sr)
    IN  IF s = <<>> THEN I(0)
        ELSE IF s[1] = I(0) THEN I(0)
        ELSE Mul(Div(Sub(s[1], Last(s)), s[1]), I(100))

\* risk_analysis.py:19-28
peak_to_current_drawdown(sr) ==
    LET s == DropNa(sr)
    IN  IF s = <<>> THEN I(0)
        ELSE LET peak == MaxQ(s)
                 current == Last(s)
             IN  IF peak = I(0) THEN I(0)
                 ELSE Mul(Div(Sub(peak, current), peak), I(100))

\* the least-squares slope of y over x = 0..k-1 (np.linalg.lstsq, risk_analysis.py:38-40)
Slope(y) ==
    LET k == Len(y)
        sx == (k * (k - 1)) \div 2
        sxx == ((k - 1) * k * (2 * k - 1)) \div 6
        sy == SumQ(y)
        sxy == SumQ([j \in 1..k |-> Mul(I(j - 1), y[j])])
    IN  Div(Sub(Mul(I(k), sxy), Mul(I(sx), sy)), I(k * sxx - sx * sx))

\* risk_analysis.py:31-45
momentum_score(sr, months) ==
    LET s == DropNa(sr)
    IN  IF Len(s) < 2 THEN I(0)
        ELSE LET window == IF months < Len(s) - 1 THEN months ELSE Len(s) - 1
                 recent == Tail_k(s, window + 1)
                 m == Slope(recent)
                 mean == MeanQ(recent)
             IN  IF mean = I(0) THEN I(0)
                 ELSE Mul(Div(m, mean), I(100))

\* the weighted sum of composite_risk_score, or its plain sum, before the clamp
Blend(sr, wv, wt, wd) ==
    LET vol == volatility_percent(sr, 12)
        draw == peak_to_current_drawdown(sr)
        mom == momentum_score(sr, 6)
        trend_pct == Neg(PyMin(mom, I(0)))
    IN  Add(Add(Mul(wv, PyMin(vol, I(100))), Mul(wt, PyMin(AbsQ(trend_pct), I(100)))),
            Mul(wd, PyMin(draw, I(100))))

\* composite_risk_score returning the weighted sum without clamping it
Composite_unclamped(sr) == Blend(sr, Q(4, 10), Q(3, 10), Q(3, 10))

\* composite_risk_score adding the three contributions without their weights
Composite_unweighted(sr) == PyMax(I(0), PyMin(I(100), Blend(sr, I(1), I(1), I(1))))

\* composite_risk_score letting momentum of either sign contribute
Composite_absmomentum(sr) ==
    LET vol_norm == PyMin(volatility_percent(sr, 12), I(100))
        draw_norm == PyMin(peak_to_current_drawdown(sr), I(100))
        trend_norm == PyMin(AbsQ(momentum_score(sr, 6)), I(100))
    IN  PyMax(I(0), PyMin(I(100), Add(Add(Mul(Q(4, 10), vol_norm), Mul(Q(3, 10), trend_norm)),
                                      Mul(Q(3, 10), draw_norm))))

\* risk_analysis.py:48-67
composite_risk_score(sr) ==
    LET vol == volatility_percent(sr, 12)
        draw == peak_to_current_drawdown(sr)
        mom == momentum_score(sr, 6)
        trend_pct == Neg(PyMin(mom, I(0)))
        vol_norm == PyMin(vol, I(100))
        draw_norm == PyMin(draw, I(100))
        trend_norm == PyMin(AbsQ(trend_pct), I(100))
        score == Add(Add(Mul(Q(4, 10), vol_norm), Mul(Q(3, 10), trend_norm)),
                     Mul(Q(3, 10), draw_norm))
    IN  PyMax(I(0), PyMin(I(100), score))

\* classify_score with the band boundaries on the wrong side
Classify_inclusive(score) ==
    IF Le(score, I(30)) THEN "Low"
    ELSE IF Le(score, I(60)) THEN "Medium"
    ELSE "High"

\* risk_analysis.py:70-75
classify_score(score) ==
    IF Lt(score, I(30)) THEN "Low"
    ELSE IF Lt(score, I(60)) THEN "Medium"
    ELSE "High"

\* demo_scenarios.py:18 (Scenario A of the specification)
ScenarioA == <<I(5000), I(4900), I(4850), I(4700), I(4600), I(4500), I(4400),
               I(4350), I(4250), I(4100), I(4050), I(3900)>>

\* risk_analysis.py called directly on a series
RiskVals == {I(-3), I(-1), I(0), I(1), I(2), I(4), NaN}
\* series of six months with a zero six or three months back
LongInputs == {<<I(0), I(1), I(1), I(0), I(1), I(1)>>,
               <<I(0), I(2), I(2), I(1), I(2), I(4)>>,
               <<I(2), I(2), I(2), I(0), I(0), I(1)>>,
               <<I(0), I(0), I(0), I(0), I(0), I(0)>>}
RiskInputs == SeqsUpTo(RiskVals, MaxLen) \cup {ScenarioA} \cup LongInputs

InitRisk ==
    /\ entry = "composite_risk_score"
    /\ pc = "score"
    /\ series \in RiskInputs
    /\ steps = 0
    /\ FreshForecaster
    /\ FreshIo

\* the four scorer functions and the classifier applied to the series
Score ==
    /\ pc = "score"
    /\ ret' = [volatility_percent |-> volatility_percent(series, 12),
               drawdown_percent |-> peak_to_current_drawdown(series),
               momentum_6 |-> momentum_score(series, 6),
               composite_score |-> composite_risk_score(series),
               risk_label |-> classify_score(composite_risk_score(series))]
    /\ pc' = "scored"
    /\ UNCHANGED <<req, fc, forecast_res, arg, payload, result, response>>

SpecRisk == InitRisk /\ [][Score]_vars

\* classify_score called directly on two scores
ScoreInputs == {I(-5), I(0), I(10), I(29), Q(29999, 1000), I(30), Q(30001, 1000),
                I(45), Q(59999, 1000), I(60), Q(60001, 1000), I(100), I(120)}

InitClassify ==
    /\ entry = "classify_score"
    /\ pc = "classify"
    /\ series = <<>>
    /\ steps = 0
    /\ FreshForecaster
    /\ arg \in ScoreInputs \X ScoreInputs
    /\ ret = Nothing
    /\ payload = Nothing
    /\ result = Nothing
    /\ response = Nothing
    /\ df = Nothing

Classify ==
    /\ pc = "classify"
    /\ ret' = <<classify_score(arg[1]), classify_score(arg[2])>>
    /\ pc' = "classified"
    /\ UNCHANGED <<req, fc, forecast_res, arg, payload, result, response>>

SpecClassify == InitClassify /\ [][Classify]_vars

-----------------------------------------------------------------------------
(* Dicts: a dict is a function from its keys; d.get(k) is None when k is   *)
(* absent, which the model renders as the key's absence.                   *)

Has(d, k) == k \in DOMAIN d
Without(d, k) == [x \in (DOMAIN d) \ {k} |-> d[x]]
With(d, k, v) == (k :> v) @@ d

\* x rounded to the nearest integer, ties to the even one
RoundHalfEven(x) ==
    LET fl == x.n \div x.d
        r2 == 2 * (x.n - fl * x.d)
    IN  IF r2 < x.d THEN fl
        ELSE IF r2 > x.d THEN fl + 1
        ELSE IF fl % 2 = 0 THEN fl ELSE fl + 1

\* round(x, 1), f"{x:.1f}": one decimal; inf and NaN are left as they are
Round1(x) == IF x.d = 0 THEN x ELSE Q(RoundHalfEven(Mul(x, I(10))), 10)
\* round(x, 2)
Round2(x) == IF x.d = 0 THEN x ELSE Q(RoundHalfEven(Mul(x, I(100))), 100)
\* round(x, 3)
Round3(x) == IF x.d = 0 THEN x ELSE Q(RoundHalfEven(Mul(x, I(1000))), 1000)
\* round(x, 4)
Round4(x) == IF x.d = 0 THEN x ELSE Q(RoundHalfEven(Mul(x, I(10000))), 10000)

-----------------------------------------------------------------------------
(* Python float arithmetic where the code sums and divides the predictions: *)
(* every operation returns the exact result rounded to the nearest float,  *)
(* ties to the even significand.                                           *)

RECURSIVE Pow2(_)
Pow2(k) == IF k = 0 THEN 1 ELSE 2 * Pow2(k - 1)

\* x > 0 brought into [2^(p-1), 2^p) by powers of two, rounded to an integer
\* significand and scaled back by the unit in the last place
RECURSIVE FlPos(_, _)
FlPos(x, ulp) ==
    IF Lt(x, I(Pow2(MantissaBits - 1))) THEN FlPos(Mul(x, I(2)), Div(ulp, I(2)))
    ELSE IF Le(I(Pow2(MantissaBits)), x) THEN FlPos(Div(x, I(2)), Mul(ulp, I(2)))
    ELSE Mul(I(RoundHalfEven(x)), ulp)

\* the float nearest to x; 0, inf and NaN are floats
Fl(x) ==
    IF x.d = 0 \/ x.n = 0 THEN x
    ELSE IF x.n < 0 THEN Neg(FlPos(Neg(x), I(1)))
    ELSE FlPos(x, I(1))

\* a + b, a - b, a * b and a / b of two floats
FAdd(a, b) == Fl(Add(a, b))
FSub(a, b) == Fl(Sub(a, b))
FMul(a, b) == Fl(Mul(a, b))
FDiv(a, b) == Fl(Div(a, b))

\* sum(l): the elements added one by one, from the left, to the start value 0
RECURSIVE FSumFrom(_, _)
FSumFrom(acc, s) == IF s = <<>> THEN acc ELSE FSumFrom(FAdd(acc, s[1]), Tail(s))

\* sum(l) / len(l) of a non-empty list of floats
FMean(s) == FDiv(FSumFrom(I(0), s), I(Len(s)))

-----------------------------------------------------------------------------
(* insights_engine.py: build_insight.  The text is modelled by its three   *)
(* sections, each by the template chosen and the numbers filled in.        *)

\* `last_actual and last_actual != 0`
LastTruthy(d) == Has(d, "last_actual") /\ d.last_actual # I(0)
\* `recent_short and ...`
ShortTruthy(d) == Has(d, "recent_short_pct") /\ d.recent_short_pct # I(0)

\* insights_engine.py:32-38
HasAvg(d) == Has(d, "predictions") /\ d.predictions # <<>>
Avg_forecast(d) == FMean(d.predictions)

\* (avg_forecast - last_actual) / last_actual * 100
PctVsLast(d) ==
    FMul(FDiv(FSub(Avg_forecast(d), d.last_actual), d.last_actual), I(100))

\* insights_engine.py:43
Forecast_pct(d) == IF LastTruthy(d) THEN PctVsLast(d) ELSE I(0)

\* the trend summary branching at the recommendation's -10% instead of -15%
Trend_phrasing_at10(d) ==
    IF Lt(d.recent_short_pct, Q(-10, 100)) THEN "decline"
    ELSE IF Lt(Q(10, 100), d.recent_short_pct) THEN "growth"
    ELSE "neutral"

\* insights_engine.py:45-50
Trend_phrasing(d) ==
    IF Lt(d.recent_short_pct, Q(-15, 100)) THEN "decline"
    ELSE IF Lt(Q(10, 100), d.recent_short_pct) THEN "growth"
    ELSE "neutral"

\* insights_engine.py:42-53
Trend_summary(d) ==
    IF Has(d, "recent_short_pct") /\ Has(d, "recent_long_pct") /\ HasAvg(d)
    THEN [phrasing |-> Trend_phrasing(d), pct |-> Round1(Forecast_pct(d))]
    ELSE [phrasing |-> "insufficient"]

\* insights_engine.py:26-28: the key 'drawdown', else 'drawdown_percent'
Drawdown(d) ==
    IF Has(d, "drawdown") THEN <<d.drawdown>>
    ELSE IF Has(d, "drawdown_percent") THEN <<d.drawdown_percent>>
    ELSE <<>>

\* insights_engine.py:56-65
Risk_assess(d) ==
    IF Has(d, "risk_label")
    THEN [label |-> d.risk_label,
          score |-> IF Has(d, "composite_score")
                    THEN <<Round1(d.composite_score)>> ELSE <<>>,
          detail |-> IF Has(d, "volatility_percent") /\ Drawdown(d) # <<>>
                     THEN <<Round1(d.volatility_percent), Round1(Drawdown(d)[1])>>
                     ELSE <<>>]
    ELSE [label |-> "insufficient"]

\* insights_engine.py:72-74
Forecast_pct_change(d) ==
    IF HasAvg(d) /\ Avg_forecast(d) # I(0) /\ LastTruthy(d) THEN PctVsLast(d) ELSE I(0)

\* the recommendation's decline test including the -10% boundary
Falling_inclusive(d) == ShortTruthy(d) /\ Le(d.recent_short_pct, Q(-10, 100))

\* insights_engine.py:86 and 109: `recent_short and recent_short < -0.10`
Falling(d) == ShortTruthy(d) /\ Lt(d.recent_short_pct, Q(-10, 100))

\* insights_engine.py:94: `recent_short and recent_short > 0.10`
Rising(d) == ShortTruthy(d) /\ Lt(Q(10, 100), d.recent_short_pct)

\* insights_engine.py:69-126
Recommendation(d) ==
    LET risk == IF Has(d, "risk_label") THEN d.risk_label ELSE "None"
        falling == Falling(d)
        rising == Rising(d)
    IN  IF risk = "High" THEN [playbook |-> "crisis"]
        ELSE IF risk = "Medium"
        THEN IF falling
             THEN [playbook |-> "cautious_monitoring",
                   pct |-> Round1(Forecast_pct_change(d))]
             ELSE IF rising THEN [playbook |-> "volatile_growth"]
             ELSE [playbook |-> "moderate_observability"]
        ELSE IF risk = "Low" /\ falling
        THEN [playbook |-> "controlled_decline",
              pct |-> Round1(Forecast_pct_change(d))]
        ELSE [playbook |-> "growth_investment"]

\* insights_engine.py:5-129
build_insight(d) ==
    [trend |-> Trend_summary(d), risk |-> Risk_assess(d), rec |-> Recommendation(d)]

-----------------------------------------------------------------------------
(* consistency_validator.py: validate_and_adjust                           *)

\* consistency_validator.py:20-21
Direction_pct(d) ==
    LET avg == FMean(d.predictions)
    IN  IF d.last_actual # I(0) THEN FDiv(FSub(avg, d.last_actual), d.last_actual)
        ELSE I(0)

\* consistency_validator.py:18-22; "none" is Python's None
Direction(d) ==
    IF HasAvg(d) /\ Has(d, "last_actual")
    THEN IF Lt(I(0), Direction_pct(d)) THEN "up"
         ELSE IF Lt(Direction_pct(d), I(0)) THEN "down"
         ELSE "flat"
    ELSE "none"

\* consistency_validator.py:27-28
RuleInstability(d) == Direction(d) = "up" /\ Has(d, "risk_label") /\ d.risk_label = "High"

\* the volatility rule firing at 40 itself
RuleVolatility_inclusive(d) ==
    Has(d, "volatility_percent") /\ Le(I(40), d.volatility_percent) /\ Direction(d) = "up"

\* consistency_validator.py:31-32
RuleVolatility(d) ==
    Has(d, "volatility_percent") /\ Lt(I(40), d.volatility_percent) /\ Direction(d) = "up"

\* consistency_validator.py:25-32: the sentences, in the order appended
Explanation(d) ==
    (IF RuleInstability(d) THEN <<"instability">> ELSE <<>>)
    \o (IF RuleVolatility(d) THEN <<"high_volatility">> ELSE <<>>)

\* consistency_validator.py:5-38
validate_and_adjust(d) ==
    LET out1 == IF HasAvg(d) /\ Has(d, "last_actual")
                THEN With(d, "forecast_direction_pct", Direction_pct(d))
                ELSE d
    IN  IF Explanation(d) # <<>>
        THEN With(out1, "consistency_explanation", Explanation(d))
        ELSE out1

-----------------------------------------------------------------------------
(* build_insight and validate_and_adjust called directly on a payload.     *)

Labels == {"Low", "Medium", "High"}
PredInputs == {<<>>, <<I(0)>>, <<I(2)>>, <<I(1), I(4)>>, <<I(3), I(3)>>}
LastInputs == {I(0), I(2), I(3)}
TrendInputs == {Q(-20, 100), Q(-15, 100), Q(-12, 100), Q(-10, 100), I(0),
                Q(10, 100), Q(12, 100)}
VolInputs == {I(10), I(40), I(41), PosInf}

FullPayloads ==
    {[predictions |-> p, lower |-> p, upper |-> p, last_actual |-> l,
      risk_label |-> r, recent_short_pct |-> t, recent_long_pct |-> t,
      volatility_percent |-> v, drawdown_percent |-> I(5),
      momentum_pct_per_month |-> I(0), composite_score |-> I(50),
      stability_index |-> I(60)] :
        p \in PredInputs, l \in LastInputs, r \in Labels, t \in TrendInputs,
        v \in VolInputs}

\* payloads as a caller may hand them in: complete, or without the short trend
Payloads ==
    FullPayloads \cup
    {Without(d, "recent_short_pct") : d \in {e \in FullPayloads : e.volatility_percent = I(10)}}

InitBuild ==
    /\ entry = "build_insight"
    /\ pc = "build"
    /\ series = <<>>
    /\ steps = 0
    /\ FreshForecaster
    /\ arg = Nothing
    /\ ret = Nothing
    /\ payload \in Payloads
    /\ result = Nothing
    /\ response = Nothing
    /\ df = Nothing

Build ==
    /\ pc = "build"
    /\ ret' = build_insight(payload)
    /\ pc' = "built"
    /\ UNCHANGED <<req, fc, forecast_res, arg, payload, result, response>>

SpecBuild == InitBuild /\ [][Build]_vars

InitValidate ==
    /\ entry = "validate_and_adjust"
    /\ pc = "validate"
    /\ series = <<>>
    /\ steps = 0
    /\ FreshForecaster
    /\ arg = Nothing
    /\ ret = Nothing
    /\ payload \in {With(d, "insight", build_insight(d)) : d \in Payloads}
    /\ result = Nothing
    /\ response = Nothing
    /\ df = Nothing

Validate ==
    /\ pc = "validate"
    /\ result' = validate_and_adjust(payload)
    /\ pc' = "validated"
    /\ UNCHANGED <<req, fc, forecast_res, arg, ret, payload, response>>

SpecValidate == InitValidate /\ [][Validate]_vars

-----------------------------------------------------------------------------
(* preprocessing.py, prediction.py and the endpoints of main.py.           *)
(* A table is [columns, rows]; a row carries a date <<month, day>> and a   *)
(* revenue.                                                                *)

RECURSIVE SortedInts(_)
SortedInts(S) ==
    IF S = {} THEN <<>>
    ELSE LET m == CHOOSE x \in S : \A y \in S : x <= y
         IN  <<m>> \o SortedInts(S \ {m})

\* groupby(month).sum(): the revenues of one month, added up
MonthSum(rows, m) ==
    SumQ(SelectSeq([j \in 1..Len(rows) |-> IF rows[j].date[1] = m THEN rows[j].revenue
                                               ELSE NaN],
                   LAMBDA x : ~IsNaN(x)))

\* prepare_series keeping the last record of a month instead of the month's sum
Prepare_last_record(table) ==
    LET months == SortedInts({table.rows[j].date[1] : j \in 1..Len(table.rows)})
        last(m) == CHOOSE j \in 1..Len(table.rows) :
                     /\ table.rows[j].date[1] = m
                     /\ \A i \in (j + 1)..Len(table.rows) : table.rows[i].date[1] # m
    IN  [j \in 1..Len(months) |-> table.rows[last(months[j])].revenue]

\* preprocessing.py:20: the day every date of a month is moved to
MonthEndDay == 31

\* preprocessing.py:20: to_period('M').to_timestamp('M')
Month_end(date) == <<date[1], MonthEndDay>>

\* preprocessing.py:20-23: the index of the returned series, month-end dates
\* in ascending order
prepare_index(table) ==
    LET months == SortedInts({Month_end(table.rows[j].date)[1] : j \in 1..Len(table.rows)})
    IN  [j \in 1..Len(months) |-> <<months[j], MonthEndDay>>]

\* preprocessing.py:16-25: bucket by month, sum, sort ascending
prepare_series(table) ==
    LET months == SortedInts({table.rows[j].date[1] : j \in 1..Len(table.rows)})
    IN  [j \in 1..Len(months) |-> MonthSum(table.rows, months[j])]

\* the column check accepting a table that has either column
SchemaOk_either(table) == "date" \in table.columns \/ "revenue" \in table.columns

\* preprocessing.py:13
SchemaOk(table) == "date" \in table.columns /\ "revenue" \in table.columns

\* main.py:78: sort_values('date'), stable
RECURSIVE SortRows(_)
SortRows(rows) ==
    IF rows = <<>> THEN <<>>
    ELSE LET key(r) == 100 * r.date[1] + r.date[2]
             k == CHOOSE j \in 1..Len(rows) :
                    \A i \in 1..Len(rows) :
                       key(rows[j]) < key(rows[i]) \/ (key(rows[j]) = key(rows[i]) /\ j <= i)
         IN  <<rows[k]>> \o SortRows([i \in 1..(Len(rows) - 1) |->
                                         IF i < k THEN rows[i] ELSE rows[i + 1]])

Endpoints == {"/risk", "/forecast"}
PipelineEntries == Endpoints \cup {"enterprise_forecast_pipeline"}

\* main.py:90 and main.py:109
ForecastMonths == 3
RiskMonths == 1

\* main.py:67-80
ReadUpload ==
    /\ entry \in Endpoints
    /\ pc = "read"
    /\ IF SchemaOk(df)
       THEN /\ df' = [df EXCEPT !.rows = SortRows(@)]
            /\ pc' = "prepare"
            /\ response' = response
       ELSE /\ response' = [status |-> 400]
            /\ pc' = "responded"
            /\ df' = df
    /\ UNCHANGED <<entry, series, steps, fc, forecast_res, arg, ret, payload, result>>

\* prediction.py:44 when preprocessing.py:13-14 raises, and prediction.py:45
\* when the series has no last element
PrepareRaises ==
    /\ entry \in PipelineEntries
    /\ pc = "prepare"
    /\ ~SchemaOk(df) \/ df.rows = <<>>
    /\ series' = IF SchemaOk(df) THEN prepare_series(df) ELSE series
    /\ ret' = IF SchemaOk(df)
              THEN [raised |-> "IndexError", at |-> "prediction.py:45"]
              ELSE [raised |-> "ValueError", at |-> "preprocessing.py:14"]
    /\ pc' = "raised"
    /\ UNCHANGED <<entry, steps, df, fc, forecast_res, arg, payload, result, response>>

\* prediction.py:44-47
Prepare ==
    /\ entry \in PipelineEntries
    /\ pc = "prepare"
    /\ SchemaOk(df)
    /\ df.rows # <<>>
    /\ series' = prepare_series(df)
    /\ pc' = "forecast"
    /\ UNCHANGED <<entry, steps, df, fc, forecast_res, io>>

\* prediction.py:59
Recent_short(s) ==
    IF Len(s) >= 3 /\ s[Len(s) - 2] # I(0)
    THEN Div(Sub(Last(s), s[Len(s) - 2]), s[Len(s) - 2])
    ELSE I(0)

\* prediction.py:60
Recent_long(s) ==
    IF Len(s) >= 6 /\ s[Len(s) - 5] # I(0)
    THEN Div(Sub(Last(s), s[Len(s) - 5]), s[Len(s) - 5])
    ELSE Recent_short(s)

\* the stability index without its clamp
Stability_unclamped(vol) == Sub(I(100), vol)

\* prediction.py:63
Stability_index(vol) == PyMax(I(0), PyMin(I(100), Sub(I(100), vol)))

\* prediction.py:48-78
Assemble ==
    /\ entry \in PipelineEntries
    /\ pc = "forecast_done"
    /\ LET vol == volatility_percent(series, 12)
           draw == peak_to_current_drawdown(series)
           mom == momentum_score(series, 3)
           comp == composite_risk_score(series)
           risk_label == classify_score(comp)
       IN  payload' =
             [predictions |-> forecast_res.predictions,
              lower |-> forecast_res.lower,
              upper |-> forecast_res.upper,
              volatility_percent |-> Round3(vol),
              drawdown_percent |-> Round3(draw),
              momentum_pct_per_month |-> Round4(mom),
              composite_score |-> Round2(comp),
              risk_label |-> risk_label,
              last_actual |-> Last(series),
              recent_short_pct |-> Recent_short(series),
              recent_long_pct |-> Recent_long(series),
              stability_index |-> Round2(Stability_index(vol))]
    /\ pc' = "narrate"
    /\ UNCHANGED <<req, fc, forecast_res, arg, ret, result, response>>

\* prediction.py:81-82
Narrate ==
    /\ pc = "narrate"
    /\ payload' = With(payload, "insight", build_insight(payload))
    /\ pc' = "check"
    /\ UNCHANGED <<req, fc, forecast_res, arg, ret, result, response>>

\* validate_and_adjust writing into the dict it was handed, without the copy of
\* consistency_validator.py:11
Check_inplace ==
    /\ pc = "check"
    /\ payload' = validate_and_adjust(payload)
    /\ result' = validate_and_adjust(payload)
    /\ pc' = "returned"
    /\ UNCHANGED <<req, fc, forecast_res, arg, ret, response>>

\* prediction.py:85-87
Check ==
    /\ pc = "check"
    /\ result' = validate_and_adjust(payload)
    /\ pc' = "returned"
    /\ UNCHANGED <<req, fc, forecast_res, arg, ret, payload, response>>

\* main.py:109-110
RespondRisk ==
    /\ entry = "/risk"
    /\ pc = "returned"
    /\ response' = [status |-> 200,
                    risk |-> IF Has(result, "risk") THEN result.risk ELSE "Medium"]
    /\ pc' = "responded"
    /\ UNCHANGED <<req, fc, forecast_res, arg, ret, payload, result>>

\* main.py:90-98
RespondForecast ==
    /\ entry = "/forecast"
    /\ pc = "returned"
    /\ response' = [status |-> 200,
                    predictions |-> result.predictions,
                    volatility_percent |-> result.volatility_percent,
                    risk |-> result.risk_label,
                    insight |-> result.insight]
    /\ pc' = "responded"
    /\ UNCHANGED <<req, fc, forecast_res, arg, ret, payload, result>>

\* main.py:99-100 and main.py:111-112
Respond500 ==
    /\ entry \in Endpoints
    /\ pc = "raised"
    /\ response' = [status |-> 500]
    /\ pc' = "responded"
    /\ UNCHANGED <<req, fc, forecast_res, arg, ret, payload, result>>

\* the tables the model uploads: one row per month in order, for every short
\* series; one table with months out of order and a month given twice; one
\* with no rows; one without the revenue column, one without the date
\* column, one without both
PipeVals == {I(0), I(2), I(4)}
MonthlyTable(s) ==
    [columns |-> {"date", "revenue"},
     rows |-> [j \in 1..Len(s) |-> [date |-> <<j, 1>>, revenue |-> s[j]]]]
ShuffledTable ==
    [columns |-> {"date", "revenue"},
     rows |-> <<[date |-> <<3, 15>>, revenue |-> I(1)],
                [date |-> <<1, 1>>, revenue |-> I(4)],
                [date |-> <<2, 1>>, revenue |-> I(2)],
                [date |-> <<3, 1>>, revenue |-> I(1)]>>]
NoRevenueTable ==
    [columns |-> {"date", "sales"},
     rows |-> <<[date |-> <<1, 1>>, revenue |-> I(1)]>>]
NoDateTable ==
    [columns |-> {"month", "revenue"},
     rows |-> <<[date |-> <<1, 1>>, revenue |-> I(1)]>>]
NoColumnsTable ==
    [columns |-> {"month", "sales"},
     rows |-> <<[date |-> <<1, 1>>, revenue |-> I(1)]>>]
\* two months, 214 then 87: the composite score is 100*127/301 + 30*127/214,
\* about 59.9964, just under the Medium/High edge of risk_analysis.py:73
BandEdgeTable == MonthlyTable(<<I(214), I(87)>>)
\* two months ending on 89, one month of 173: 89 + 89 + 89 = 267 needs nine
\* bits and 173 + 173 + 173 = 519 ten, so the sum of three copies is rounded
\* (as 0.1 + 0.1 + 0.1 is at 53 bits) when the significand has 8 or 9 bits
RoundedSumTable == MonthlyTable(<<I(255), I(89)>>)
RoundedSumSingleTable == MonthlyTable(<<I(173)>>)
Tables ==
    {MonthlyTable(s) : s \in SeqsUpTo(PipeVals, MaxLen)}
    \cup {ShuffledTable, NoRevenueTable, NoDateTable, NoColumnsTable, BandEdgeTable,
          RoundedSumTable, RoundedSumSingleTable}

Init ==
    /\ entry \in PipelineEntries
    /\ pc = IF entry \in Endpoints THEN "read" ELSE "prepare"
    /\ df \in Tables
    /\ steps \in IF entry = "/risk" THEN {RiskMonths}
                 ELSE IF entry = "/forecast" THEN {ForecastMonths}
                 ELSE 1..MaxSteps
    /\ series = <<>>
    /\ FreshForecaster
    /\ arg = Nothing
    /\ ret = Nothing
    /\ payload = Nothing
    /\ result = Nothing
    /\ response = Nothing

\* ets_recursive_forecast's own empty-series check (forecasting.py:32) is not
\* among the steps: prediction.py:45 has already raised on an empty series
Next ==
    \/ ReadUpload \/ PrepareRaises \/ Prepare
    \/ Degenerate \/ Fit \/ Step \/ Return
    \/ Assemble \/ Narrate \/ Check
    \/ RespondRisk \/ RespondForecast \/ Respond500

Spec == Init /\ [][Next]_vars

-----------------------------------------------------------------------------
(* Claims about the forecaster, checked under SpecForecast.                *)

\* the request went through the fitted path (forecasting.py:49-104)
Fitted == pc = "adjust" \/ (pc = "forecast_done" /\ Len(DropNa(series)) >= 3)

\* C1: on a series of at least 3 points every adjusted step k lies between the
\* caps computed from the previous adjusted value, downCap_k <= adjusted_k <=
\* upCap_k; on a rebound step (recentPct < 0 and raw > prev) only the upper cap
\* is required.
C1_AdjustedWithinCaps ==
    Fitted =>
      \A k \in 1..Len(adjusted) :
        LET prev == PrevAt(series, adjusted, k)
        IN  /\ Le(adjusted[k], Max_up(prev, recent_pct))
            /\ \/ Rebound(prev, recent_pct, preds[k])
               \/ Le(Min_down(prev, recent_pct), adjusted[k])

\* C3: with one or two non-missing points the forecaster returns the last
\* observed value, repeated steps times, as predictions, lower and upper.
C3_DegenerateRepeatsLastObserved ==
    (pc = "forecast_done" /\ Len(DropNa(series)) < 3 /\ DropNa(series) # <<>>) =>
      LET flat == Repeat(Last(DropNa(series)), steps)
      IN  /\ forecast_res.predictions = flat
          /\ forecast_res.lower = flat
          /\ forecast_res.upper = flat

-----------------------------------------------------------------------------
(* Claims about the risk scorer, checked under SpecRisk and SpecClassify.  *)

\* C5: the composite score lies in [0,100] for every series, also with
\* infinite volatility, negative values or no points at all.
C5_CompositeInRange ==
    pc = "scored" =>
      /\ Le(I(0), ret.composite_score)
      /\ Le(ret.composite_score, I(100))

C5_Witness ==
    /\ pc = "scored"
    /\ ret.volatility_percent = PosInf
    /\ \E j \in 1..Len(series) : Lt(series[j], I(0))

Severity(label) == IF label = "Low" THEN 0 ELSE IF label = "Medium" THEN 1 ELSE 2

\* C6: classify gives Low exactly below 30, Medium exactly on [30,60), High
\* exactly from 60 up, so severity never decreases as the score grows.
C6_ClassifyBands ==
    pc = "classified" =>
      /\ \A j \in 1..2 :
           /\ ret[j] = "Low" <=> Lt(arg[j], I(30))
           /\ ret[j] = "Medium" <=> (Le(I(30), arg[j]) /\ Lt(arg[j], I(60)))
           /\ ret[j] = "High" <=> Le(I(60), arg[j])
      /\ Le(arg[1], arg[2]) => Severity(ret[1]) <= Severity(ret[2])

C6_Witness ==
    /\ pc = "classified"
    /\ arg = <<Q(29999, 1000), I(30)>>
    /\ ret = <<"Low", "Medium">>

\* C9 (as claimed): Scenario A is labelled Medium or High.
C9_ScenarioA_MediumOrHigh ==
    (pc = "scored" /\ series = ScenarioA) => ret.risk_label \in {"Medium", "High"}

\* C9 (amended): Scenario A scores between 10 and 11 and is labelled Low.
C9_ScenarioA_Low ==
    (pc = "scored" /\ series = ScenarioA) =>
      /\ ret.risk_label = "Low"
      /\ Lt(I(10), ret.composite_score)
      /\ Lt(ret.composite_score, I(11))

C9_Witness == pc = "scored" /\ series = ScenarioA /\ ret.risk_label = "Low"

-----------------------------------------------------------------------------
(* Claims about the validator, checked under SpecValidate.                 *)

\* the direction as recorded in the returned payload
ResultUp == Has(result, "forecast_direction_pct") /\ Lt(I(0), result.forecast_direction_pct)
ResultDown == Has(result, "forecast_direction_pct") /\ Lt(result.forecast_direction_pct, I(0))

\* C4: consistency_explanation is present exactly when rule (a) direction up
\* and risk High, or rule (b) volatility above 40 and direction up, fired;
\* (up, High) gives the instability sentence, (down, Low) leaves the field out,
\* and a present field is never empty.
C4_ExplanationIffRuleFired ==
    pc = "validated" =>
      LET a == ResultUp /\ result.risk_label = "High"
          b == Lt(I(40), result.volatility_percent) /\ ResultUp
          present == Has(result, "consistency_explanation")
      IN  /\ present <=> (a \/ b)
          /\ present => result.consistency_explanation # <<>>
          /\ a => (present /\ \E j \in 1..Len(result.consistency_explanation) :
                                 result.consistency_explanation[j] = "instability")
          /\ (ResultDown /\ result.risk_label = "Low") => ~present

C4_Witness ==
    /\ pc = "validated"
    /\ ResultUp
    /\ result.risk_label = "High"
    /\ Has(result, "consistency_explanation")
    /\ result.consistency_explanation[1] = "instability"

-----------------------------------------------------------------------------
(* Claims about the narrative, checked under SpecBuild.                    *)

\* the short-term trend of the payload is below / above a threshold (in percent)
ShortBelow(d, c) == Has(d, "recent_short_pct") /\ Lt(d.recent_short_pct, Q(c, 100))
ShortAbove(d, c) == Has(d, "recent_short_pct") /\ Lt(Q(c, 100), d.recent_short_pct)

\* C7: the recommendation is the decision table over (risk_label, short
\* trend): High -> crisis; Medium and trend < -10% -> cautious monitoring;
\* Medium and trend > +10% -> volatility-aware growth; Medium otherwise ->
\* moderate observability; Low and trend < -10% -> controlled decline; Low
\* otherwise -> growth investment; -10% and +10% themselves are 'otherwise'.
C7_RecommendationTable ==
    pc = "built" =>
      LET r == payload.risk_label
          chosen == ret.rec.playbook
      IN  /\ r = "High" => chosen = "crisis"
          /\ (r = "Medium" /\ ShortBelow(payload, -10)) => chosen = "cautious_monitoring"
          /\ (r = "Medium" /\ ShortAbove(payload, 10)) => chosen = "volatile_growth"
          /\ (r = "Medium" /\ ~ShortBelow(payload, -10) /\ ~ShortAbove(payload, 10))
               => chosen = "moderate_observability"
          /\ (r = "Low" /\ ShortBelow(payload, -10)) => chosen = "controlled_decline"
          /\ (r = "Low" /\ ~ShortBelow(payload, -10)) => chosen = "growth_investment"

C7_Witness ==
    /\ pc = "built"
    /\ payload.risk_label = "Medium"
    /\ Has(payload, "recent_short_pct")
    /\ payload.recent_short_pct = Q(-10, 100)
    /\ ret.rec.playbook = "moderate_observability"

\* the phrasing the -15% / +10% thresholds call for
PhrasingFor(d) ==
    IF ShortBelow(d, -15) THEN "decline"
    ELSE IF ShortAbove(d, 10) THEN "growth"
    ELSE "neutral"

-----------------------------------------------------------------------------
(* Claims about the endpoints, checked under Spec.                         *)

\* C10: the risk that /risk answers with is the risk_label the pipeline
\* computed for the uploaded data.
C10_RiskEndpointReturnsLabel ==
    (entry = "/risk" /\ pc = "responded" /\ response.status = 200) =>
      response.risk = result.risk_label

-----------------------------------------------------------------------------
(* Claims about normalization, checked under Spec.                         *)

\* the records of a normalized series: one row per period, columns date
\* (preprocessing.py:23 names the index) and revenue
Records(idx, vals) ==
    [columns |-> {"date", "revenue"},
     rows |-> [j \in 1..Len(idx) |-> [date |-> idx[j], revenue |-> vals[j]]]]

\* the revenues of the raw rows dated in month m, in row order
RawOfMonth(rows, m) ==
    LET sel == SelectSeq(rows, LAMBDA r : r.date[1] = m)
    IN  [j \in 1..Len(sel) |-> sel[j].revenue]

\* prepare_series has returned for the uploaded table
Prepared == SchemaOk(df) /\ pc \notin {"read", "prepare"}

\* C11: the prepared series has unique periods in strictly ascending order,
\* each value is the sum of the raw observations of its month, and preparing
\* the records of the prepared series again gives the same periods and values.
C11_PrepareIdempotent ==
    Prepared =>
      LET idx == prepare_index(df)
          again == Records(idx, series)
      IN  /\ Len(idx) = Len(series)
          /\ \A j, k \in 1..Len(idx) : j < k => idx[j][1] < idx[k][1]
          /\ \A j \in 1..Len(idx) : series[j] = SumQ(RawOfMonth(df.rows, idx[j][1]))
          /\ \A j \in 1..Len(df.rows) : \E k \in 1..Len(idx) : idx[k][1] = df.rows[j].date[1]
          /\ prepare_index(again) = idx
          /\ prepare_series(again) = series

C11_Witness ==
    /\ Prepared
    /\ df.rows = ShuffledTable.rows
    /\ series = <<I(4), I(2), I(2)>>
    /\ prepare_index(df) = <<<<1, MonthEndDay>>, <<2, MonthEndDay>>, <<3, MonthEndDay>>>>

-----------------------------------------------------------------------------
(* Claims about the stages' effects on their inputs, checked under Spec.   *)

\* every field of dict d is in dict e with the same value
KeepsFields(d, e) == \A k \in DOMAIN d : k \in DOMAIN e /\ e[k] = d[k]

-----------------------------------------------------------------------------
(* Claims about errors, checked under Spec.                                *)

\* C13: when normalization leaves no data point the request ends with the
\* forecaster's empty-series error (forecasting.py:33) and no result record.
C13_EmptySeriesErrorFromForecaster ==
    (Prepared /\ series = <<>>) =>
      /\ pc \in {"raised", "responded"}
      /\ ret = [raised |-> "ValueError", at |-> "forecasting.py:33"]
      /\ result = Nothing

\* the exception of preprocessing.py:14
SchemaError == [raised |-> "ValueError", at |-> "preprocessing.py:14"]

\* the date field or the value field or both are absent from the table
FieldAbsent == "date" \notin df.columns \/ "revenue" \notin df.columns

\* C14: prepare fails with the schema error, leaving no series behind,
\* whenever the date column or the revenue column or both are absent, and
\* never fails with it when both are present.
C14_SchemaErrorIffColumnMissing ==
    /\ (entry = "enterprise_forecast_pipeline" /\ pc # "prepare" /\ FieldAbsent) =>
         (pc = "raised" /\ ret = SchemaError)
    /\ ret = SchemaError =>
         /\ FieldAbsent
         /\ series = <<>>
         /\ payload = Nothing
         /\ result = Nothing

C14_Witness ==
    /\ pc = "raised"
    /\ ret = SchemaError
    /\ "date" \notin df.columns
    /\ "revenue" \in df.columns

-----------------------------------------------------------------------------
(* Further claims about the forecaster, checked under SpecForecast.        *)

C15_Witness ==
    /\ pc = "forecast_done"
    /\ Len(DropNa(series)) < 3
    /\ steps = MaxSteps
    /\ Len(forecast_res.predictions) = MaxSteps

-----------------------------------------------------------------------------
(* Claims about the output record, checked under Spec.                     *)

\* x brought into [0,100]
Clamp100(x) == IF Lt(x, I(0)) THEN I(0) ELSE IF Lt(I(100), x) THEN I(100) ELSE x

\* C16 (as claimed): stability_index equals clamp(100 - volatility, 0, 100),
\* for the volatility as computed or as reported in the record.
C16_StabilityIsClampedComplement ==
    pc = "returned" =>
      \/ result.stability_index = Clamp100(Sub(I(100), volatility_percent(series, 12)))
      \/ result.stability_index = Clamp100(Sub(I(100), result.volatility_percent))

\* C16 (amended): stability_index equals clamp(100 - volatility, 0, 100)
\* rounded to two decimals, lies in [0,100], and is 0 when the volatility is
\* +infinity or at least 100.
C16_StabilityIsRoundedClamp ==
    pc = "returned" =>
      LET vol == volatility_percent(series, 12)
      IN  /\ result.stability_index = Round2(Clamp100(Sub(I(100), vol)))
          /\ Le(I(0), result.stability_index)
          /\ Le(result.stability_index, I(100))
          /\ Le(I(100), vol) => result.stability_index = I(0)

C16_Witness ==
    /\ pc = "returned"
    /\ volatility_percent(series, 12) = PosInf
    /\ result.volatility_percent = PosInf
    /\ result.stability_index = I(0)

C16_WitnessAbove100 ==
    /\ pc = "returned"
    /\ IsFinite(result.volatility_percent)
    /\ Lt(I(100), result.volatility_percent)
    /\ result.stability_index = I(0)

-----------------------------------------------------------------------------
(* Further claims about the risk scorer, checked under SpecRisk.           *)

MomentumWindow(s) == Tail_k(s, (IF 6 < Len(s) - 1 THEN 6 ELSE Len(s) - 1) + 1)

\* C18: a ratio with a zero denominator gives its sentinel and never NaN:
\* volatility is +inf on a zero window mean and 0 on an empty series; drawdown
\* is 0 on an empty series or a zero peak; momentum is 0 below two points or
\* on a zero window mean; the forecaster's recent percent change and the
\* pipeline's short and long trends are defined when an earlier value is 0.
C18_ZeroDenominatorSentinels ==
    pc = "scored" =>
      LET s == DropNa(series)
          n == Len(series)
      IN  /\ ~IsNaN(ret.volatility_percent)
          /\ ~IsNaN(ret.drawdown_percent)
          /\ ~IsNaN(ret.momentum_6)
          /\ s = <<>> => (ret.volatility_percent = I(0) /\ ret.drawdown_percent = I(0))
          /\ (s # <<>> /\ SumQ(Tail_k(s, 12)) = I(0)) => ret.volatility_percent = PosInf
          /\ (s # <<>> /\ (\A j \in 1..Len(s) : Le(s[j], I(0)))
                       /\ (\E j \in 1..Len(s) : s[j] = I(0))) => ret.drawdown_percent = I(0)
          /\ Len(s) < 2 => ret.momentum_6 = I(0)
          /\ (Len(s) >= 2 /\ SumQ(MomentumWindow(s)) = I(0)) => ret.momentum_6 = I(0)
          /\ s = series =>
               /\ ~IsNaN(Recent_pct(series))
               /\ ~IsNaN(Recent_short(series))
               /\ ~IsNaN(Recent_long(series))
               /\ (n >= 3 /\ series[n - 2] = I(0)) => Recent_short(series) = I(0)
               /\ (n >= 6 /\ series[n - 5] = I(0)) => Recent_long(series) = Recent_short(series)

C18_Witness ==
    /\ pc = "scored"
    /\ Len(series) >= 6
    /\ series[Len(series) - 5] = I(0)
    /\ series[Len(series) - 2] = I(0)
    /\ Recent_pct(series) = PosInf
    /\ Recent_long(series) = I(0)
    /\ ret.volatility_percent # PosInf

C18_WitnessZeroMean ==
    /\ pc = "scored"
    /\ ret.volatility_percent = PosInf
    /\ ret.momentum_6 = I(0)
    /\ ret.drawdown_percent = I(0)
    /\ \E j \in 1..Len(series) : Lt(I(0), series[j])

\* p is the largest value of the non-empty sequence s
IsPeak(s, p) == (\E j \in 1..Len(s) : s[j] = p) /\ (\A j \in 1..Len(s) : Le(s[j], p))

\* C19: the drawdown of a non-decreasing series is exactly 0, and with a
\* positive peak it is 100*(peak - latest)/peak, the peak being the largest
\* value of the whole series.
C19_DrawdownFromPeak ==
    pc = "scored" =>
      LET s == DropNa(series)
      IN  /\ (\A j \in 1..(Len(s) - 1) : Le(s[j], s[j + 1])) => ret.drawdown_percent = I(0)
          /\ \A j \in 1..Len(s) :
                (IsPeak(s, s[j]) /\ Lt(I(0), s[j])) =>
                  ret.drawdown_percent = Div(Mul(I(100), Sub(s[j], Last(s))), s[j])

C19_Witness ==
    /\ pc = "scored"
    /\ Len(series) = 3
    /\ IsPeak(series, series[2])
    /\ Lt(series[3], series[2]) /\ Lt(series[1], series[3])
    /\ Lt(I(0), ret.drawdown_percent)

-----------------------------------------------------------------------------
(* Totality of the pipeline, checked under Spec.  The pass is straight-line *)
(* code run by one thread, so it completes when no statement raises, no    *)
(* position is left without a next statement, and every statement moves    *)
(* the request forward.                                                    *)

\* the fields of the output record (prediction.py:65-82)
RecordFields ==
    {"predictions", "lower", "upper", "volatility_percent", "drawdown_percent",
     "momentum_pct_per_month", "composite_score", "risk_label",
     "recent_short_pct", "recent_long_pct", "stability_index", "insight"}

\* the pipeline returned a record with every field filled in
Populated ==
    /\ pc \in {"returned", "responded"}
    /\ RecordFields \subseteq DOMAIN result
    /\ Len(result.predictions) = steps
    /\ Len(result.lower) = steps
    /\ Len(result.upper) = steps
    /\ result.risk_label \in Labels
    /\ DOMAIN result.insight = {"trend", "risk", "rec"}

\* a table with both columns and at least one record, a positive horizon
WellFormed ==
    "date" \in df.columns /\ "revenue" \in df.columns /\ df.rows # <<>> /\ steps >= 1

\* how far the request has come: its position, and inside the forecaster's
\* loop the number of steps adjusted so far
Progress ==
    LET at == CASE pc = "read" -> 0 [] pc = "prepare" -> 1 [] pc = "forecast" -> 2
                [] pc = "adjust" -> 3 [] pc = "forecast_done" -> 4
                [] pc = "narrate" -> 5 [] pc = "check" -> 6
                [] pc \in {"returned", "raised"} -> 7 [] pc = "responded" -> 8
    IN  10 * at + Len(adjusted)

\* the request is at a position whose next statement can run: the forecaster
\* has a series it accepts, the loop has not overrun the horizon
HasNextStatement ==
    /\ pc \in {"read", "prepare", "forecast", "adjust", "forecast_done", "narrate",
               "check", "returned", "responded"}
    /\ pc = "read" => entry \in Endpoints
    /\ pc = "forecast" => (series # <<>> /\ DropNa(series) = series)
    /\ pc = "adjust" => Len(adjusted) <= steps
    /\ pc = "returned" => (entry \in Endpoints => response = Nothing)

\* C20: for every table with both columns and at least one record, and every
\* positive horizon, the pass prepare -> forecast/score -> narrate -> validate
\* never raises and ends with a fully populated record; series of one or two
\* points included.
C20_PipelineTotal ==
    /\ [](WellFormed =>
            /\ pc # "raised"
            /\ HasNextStatement
            /\ pc \in {"returned", "responded"} => Populated)
    /\ [][WellFormed => Progress' > Progress]_vars

C20_Witness ==
    /\ Populated
    /\ pc = "returned"
    /\ Len(series) \in {1, 2}
    /\ result.predictions = Repeat(Last(series), steps)

-----------------------------------------------------------------------------
(* Claims about the confidence band, checked under SpecForecast.           *)

\* the larger / the smaller of two values, the first when they do not compare
Larger(a, b) == IF Lt(a, b) THEN b ELSE a
Smaller(a, b) == IF Lt(b, a) THEN b ELSE a

\* C21: at every step of the fitted path the lower bound is the larger of the
\* step's down cap and the raw lower bound, and the upper bound the smaller of
\* the step's up cap and the raw upper bound, the caps being those of the
\* prediction of that step, on a rebound step too.
C21_BoundsIntersectCaps ==
    Fitted =>
      \A k \in 1..Len(adjusted) :
        LET prev == PrevAt(series, adjusted, k)
        IN  /\ adjusted_lower[k] =
                 Larger(Min_down(prev, recent_pct), RawLower(preds[k], resid_std))
            /\ adjusted_upper[k] =
                 Smaller(Max_up(prev, recent_pct), RawUpper(preds[k], resid_std))

C21_Witness ==
    /\ Fitted
    /\ Len(adjusted) >= 1
    /\ Rebound(Last(series), recent_pct, preds[1])
    /\ adjusted_lower[1] = RawLower(preds[1], resid_std)
    /\ Lt(Min_down(Last(series), recent_pct), adjusted_lower[1])
    /\ adjusted_upper[1] = Max_up(Last(series), recent_pct)
    /\ Lt(adjusted_upper[1], RawUpper(preds[1], resid_std))

\* C23: at every step the adjusted prediction lies inside its adjusted band,
\* lower <= prediction <= upper, for every series, raw forecast and residual
\* standard deviation.
C23_PredictionInsideBand ==
    pc = "forecast_done" =>
      \A k \in 1..Len(forecast_res.predictions) :
        /\ Le(forecast_res.lower[k], forecast_res.predictions[k])
        /\ Le(forecast_res.predictions[k], forecast_res.upper[k])

\* the failing case of C23: a falling, strictly positive series whose fit
\* rebounds above the up cap; the prediction is capped, the lower bound is not
C23_BandInverted ==
    /\ pc = "forecast_done"
    /\ series = <<I(4), I(2), I(1)>>
    /\ Len(forecast_res.predictions) >= 1
    /\ forecast_res.predictions[1] = Q(5, 2)
    /\ forecast_res.lower[1] = I(5)
    /\ forecast_res.upper[1] = Q(5, 2)

\* every value of the series is a number above 0
StrictlyPositive(s) == \A j \in 1..Len(s) : Lt(I(0), s[j])

\* C26: for a series of strictly positive values every adjusted prediction the
\* forecaster returns is strictly positive, whatever the raw forecasts are.
C26_PositiveSeriesPositiveForecast ==
    (pc = "forecast_done" /\ StrictlyPositive(series)) =>
      \A k \in 1..Len(forecast_res.predictions) :
        Lt(I(0), forecast_res.predictions[k])

\* the failing case of C26: the down cap of a falling series is below zero
C26_NegativeRevenue ==
    /\ pc = "forecast_done"
    /\ series = <<I(4), I(2), I(1)>>
    /\ Lt(Min_down(Last(series), recent_pct), I(0))
    /\ forecast_res.predictions[1] = I(-3)

-----------------------------------------------------------------------------
(* Further claims about the validator, checked under SpecValidate.         *)

\* C22: when validate finds a contradiction it adds the explanation and
\* changes the insight, so the returned insight differs from the one passed in.
C22_ValidateAdjustsInsight ==
    (pc = "validated" /\ Has(result, "consistency_explanation")) =>
      result.insight # payload.insight

-----------------------------------------------------------------------------
(* Claims about the record the pipeline returns, checked under Spec.       *)

\* C24: in every record the pipeline returns, the risk label is the band of
\* the composite score stored in the same record (the score after rounding to
\* two decimals).
C24_LabelIsBandOfReportedScore ==
    pc = "returned" => result.risk_label = classify_score(result.composite_score)

\* the failing case of C24: the label was taken from the unrounded score
C24_LabelOffBand ==
    /\ pc = "returned"
    /\ df = BandEdgeTable
    /\ Lt(composite_risk_score(series), I(60))
    /\ result.composite_score = I(60)
    /\ result.risk_label = "Medium"
    /\ classify_score(result.composite_score) = "High"

-----------------------------------------------------------------------------
(* Further claims about the narrative, checked under SpecBuild.            *)

\* the narrative states a forecast percent change in both places
StatesPctTwice ==
    /\ pc = "built"
    /\ Has(ret.trend, "pct")
    /\ ret.rec.playbook \in {"cautious_monitoring", "controlled_decline"}

\* C25: when a narrative states the forecast percent change both in its trend
\* summary and in a decline recommendation, the two numbers are the same.
C25_OnePercentChangePerNarrative ==
    StatesPctTwice => ret.rec.pct = ret.trend.pct

\* the failing case of C25: predictions that average exactly 0
C25_TwoPercentChanges ==
    /\ StatesPctTwice
    /\ payload.predictions = <<I(0)>>
    /\ payload.last_actual = I(2)
    /\ ret.trend.pct = I(-100)
    /\ ret.rec.pct = I(0)

\* C27: when the trend summary of a returned record uses the decline
\* phrasing, the forecast direction of the same record is not up.
C27_DeclinePhrasingNotUp ==
    (pc = "returned" /\ result.insight.trend.phrasing = "decline") =>
      ~Lt(I(0), result.forecast_direction_pct)

\* the failing case of C27: a series that fell and levelled, a fit that rebounds
C27_DeclineSaidForecastUp ==
    /\ pc = "returned"
    /\ series = <<I(4), I(2), I(2)>>
    /\ result.insight.trend.phrasing = "decline"
    /\ result.predictions[1] = Q(7, 2)
    /\ Lt(I(0), result.forecast_direction_pct)

\* C28: for a series of one or two points, and for a series whose last value
\* is 0, the record the pipeline returns has forecast direction 0 (flat) and
\* no consistency explanation.
C28_ShortSeriesFlatUnexplained ==
    (pc = "returned" /\ (Len(series) <= 2 \/ Last(series) = I(0))) =>
      /\ result.forecast_direction_pct = I(0)
      /\ ~Has(result, "consistency_explanation")

\* the failing case of C28: three copies of the last value do not average
\* to the last value
C28_RepeatedValueReportedUp ==
    /\ pc = "returned"
    /\ df = RoundedSumTable
    /\ steps = 3
    /\ result.predictions = <<I(89), I(89), I(89)>>
    /\ result.last_actual = I(89)
    /\ Lt(I(0), result.forecast_direction_pct)
    /\ Has(result, "consistency_explanation")

=============================================================================
